---- MODULE Spec2Model ----
(***************************************************************************)
(* Checkpoint-state resolution and retrieval of pico-analyze               *)
(* (src/src/utils/data.py): the commit index resolver with its lru_cache,  *)
(* the remote and local retrieval strategies and the state bundle loader.  *)
(*                                                                         *)
(* Strings are sequences of one-character strings, so that the regular     *)
(* expression search, int() and the f-string formatting are computed       *)
(* character by character.  A path is a sequence of components.            *)
(***************************************************************************)
EXTENDS Integers, Sequences, FiniteSets, TLC

VARIABLES
    commits,     \* the hub: (repo_id, branch) -> commit listing as list_repo_commits returns it
    fs,          \* the local filesystem: the set of paths that exist
    unreadable,  \* the paths of fs whose content torch.load / load_from_disk cannot
                 \* read: a file that is not complete or holds something else, a
                 \* directory where a file is expected, a file where a directory is
    cache,       \* lru_cache of _get_learning_dynamics_commits: key -> returned dict
    lru,         \* the keys of cache, least recently used first
    listCalls,   \* key -> number of api.list_repo_commits calls issued for it
    pc,          \* thread -> where its call stands: "idle", or the blocking call or
                 \* filesystem test it is about to make ("miss": list_repo_commits,
                 \* "listed": parse and store, "snapshot": snapshot_download, "load": the
                 \* next os.path.exists of the loader, "read": torch.load or
                 \* load_from_disk of the path just tested, "checkpoint", "step":
                 \* os.path.exists of that path, "open": open of the downloaded config)
    pend,        \* thread -> the locals of the call in progress
    ret          \* thread -> outcome of the thread's last completed call (NoRet
                 \* while a call on the local filesystem is in progress)

vars == <<commits, fs, unreadable, cache, lru, listCalls, pc, pend, ret>>

---------------------------------------------------------------------------
(* Bounds of the model *)

MaxCommits == 2
NumThreads == 2
MaxListCalls == 1
MaxKeys == 130
MaxPaths == 6

(* functools.lru_cache() is used with its default maxsize *)
LruMaxSize == 128

(* The most digits int() and str() convert (sys.get_int_max_str_digits() of
   CPython 3.11 and later, as it is set by default) *)
IntMaxStrDigits == 4300

Threads == 1..NumThreads

---------------------------------------------------------------------------
(* Strings *)

(* A character outside ASCII is written by its code point, as in "U+0662" *)
Digits == <<"0", "1", "2", "3", "4", "5", "6", "7", "8", "9">>

(* The decimal digits of Unicode (category Nd), by their value: element v + 1 holds
   the characters of value v.  \d of a str pattern matches them and int() converts
   them. *)
DigitChars ==
    <<
       {"0", "U+0660", "U+06F0", "U+07C0", "U+0966", "U+09E6", "U+0A66", "U+0AE6",
        "U+0B66", "U+0BE6", "U+0C66", "U+0CE6", "U+0D66", "U+0DE6", "U+0E50", "U+0ED0",
        "U+0F20", "U+1040", "U+1090", "U+17E0", "U+1810", "U+1946", "U+19D0", "U+1A80",
        "U+1A90", "U+1B50", "U+1BB0", "U+1C40", "U+1C50", "U+A620", "U+A8D0", "U+A900",
        "U+A9D0", "U+A9F0", "U+AA50", "U+ABF0", "U+FF10", "U+104A0", "U+10D30", "U+11066",
        "U+110F0", "U+11136", "U+111D0", "U+112F0", "U+11450", "U+114D0", "U+11650",
        "U+116C0", "U+11730", "U+118E0", "U+11950", "U+11C50", "U+11D50", "U+11DA0",
        "U+16A60", "U+16AC0", "U+16B50", "U+1D7CE", "U+1D7D8", "U+1D7E2", "U+1D7EC",
        "U+1D7F6", "U+1E140", "U+1E2F0", "U+1E950", "U+1FBF0"},
       {"1", "U+0661", "U+06F1", "U+07C1", "U+0967", "U+09E7", "U+0A67", "U+0AE7",
        "U+0B67", "U+0BE7", "U+0C67", "U+0CE7", "U+0D67", "U+0DE7", "U+0E51", "U+0ED1",
        "U+0F21", "U+1041", "U+1091", "U+17E1", "U+1811", "U+1947", "U+19D1", "U+1A81",
        "U+1A91", "U+1B51", "U+1BB1", "U+1C41", "U+1C51", "U+A621", "U+A8D1", "U+A901",
        "U+A9D1", "U+A9F1", "U+AA51", "U+ABF1", "U+FF11", "U+104A1", "U+10D31", "U+11067",
        "U+110F1", "U+11137", "U+111D1", "U+112F1", "U+11451", "U+114D1", "U+11651",
        "U+116C1", "U+11731", "U+118E1", "U+11951", "U+11C51", "U+11D51", "U+11DA1",
        "U+16A61", "U+16AC1", "U+16B51", "U+1D7CF", "U+1D7D9", "U+1D7E3", "U+1D7ED",
        "U+1D7F7", "U+1E141", "U+1E2F1", "U+1E951", "U+1FBF1"},
       {"2", "U+0662", "U+06F2", "U+07C2", "U+0968", "U+09E8", "U+0A68", "U+0AE8",
        "U+0B68", "U+0BE8", "U+0C68", "U+0CE8", "U+0D68", "U+0DE8", "U+0E52", "U+0ED2",
        "U+0F22", "U+1042", "U+1092", "U+17E2", "U+1812", "U+1948", "U+19D2", "U+1A82",
        "U+1A92", "U+1B52", "U+1BB2", "U+1C42", "U+1C52", "U+A622", "U+A8D2", "U+A902",
        "U+A9D2", "U+A9F2", "U+AA52", "U+ABF2", "U+FF12", "U+104A2", "U+10D32", "U+11068",
        "U+110F2", "U+11138", "U+111D2", "U+112F2", "U+11452", "U+114D2", "U+11652",
        "U+116C2", "U+11732", "U+118E2", "U+11952", "U+11C52", "U+11D52", "U+11DA2",
        "U+16A62", "U+16AC2", "U+16B52", "U+1D7D0", "U+1D7DA", "U+1D7E4", "U+1D7EE",
        "U+1D7F8", "U+1E142", "U+1E2F2", "U+1E952", "U+1FBF2"},
       {"3", "U+0663", "U+06F3", "U+07C3", "U+0969", "U+09E9", "U+0A69", "U+0AE9",
        "U+0B69", "U+0BE9", "U+0C69", "U+0CE9", "U+0D69", "U+0DE9", "U+0E53", "U+0ED3",
        "U+0F23", "U+1043", "U+1093", "U+17E3", "U+1813", "U+1949", "U+19D3", "U+1A83",
        "U+1A93", "U+1B53", "U+1BB3", "U+1C43", "U+1C53", "U+A623", "U+A8D3", "U+A903",
        "U+A9D3", "U+A9F3", "U+AA53", "U+ABF3", "U+FF13", "U+104A3", "U+10D33", "U+11069",
        "U+110F3", "U+11139", "U+111D3", "U+112F3", "U+11453", "U+114D3", "U+11653",
        "U+116C3", "U+11733", "U+118E3", "U+11953", "U+11C53", "U+11D53", "U+11DA3",
        "U+16A63", "U+16AC3", "U+16B53", "U+1D7D1", "U+1D7DB", "U+1D7E5", "U+1D7EF",
        "U+1D7F9", "U+1E143", "U+1E2F3", "U+1E953", "U+1FBF3"},
       {"4", "U+0664", "U+06F4", "U+07C4", "U+096A", "U+09EA", "U+0A6A", "U+0AEA",
        "U+0B6A", "U+0BEA", "U+0C6A", "U+0CEA", "U+0D6A", "U+0DEA", "U+0E54", "U+0ED4",
        "U+0F24", "U+1044", "U+1094", "U+17E4", "U+1814", "U+194A", "U+19D4", "U+1A84",
        "U+1A94", "U+1B54", "U+1BB4", "U+1C44", "U+1C54", "U+A624", "U+A8D4", "U+A904",
        "U+A9D4", "U+A9F4", "U+AA54", "U+ABF4", "U+FF14", "U+104A4", "U+10D34", "U+1106A",
        "U+110F4", "U+1113A", "U+111D4", "U+112F4", "U+11454", "U+114D4", "U+11654",
        "U+116C4", "U+11734", "U+118E4", "U+11954", "U+11C54", "U+11D54", "U+11DA4",
        "U+16A64", "U+16AC4", "U+16B54", "U+1D7D2", "U+1D7DC", "U+1D7E6", "U+1D7F0",
        "U+1D7FA", "U+1E144", "U+1E2F4", "U+1E954", "U+1FBF4"},
       {"5", "U+0665", "U+06F5", "U+07C5", "U+096B", "U+09EB", "U+0A6B", "U+0AEB",
        "U+0B6B", "U+0BEB", "U+0C6B", "U+0CEB", "U+0D6B", "U+0DEB", "U+0E55", "U+0ED5",
        "U+0F25", "U+1045", "U+1095", "U+17E5", "U+1815", "U+194B", "U+19D5", "U+1A85",
        "U+1A95", "U+1B55", "U+1BB5", "U+1C45", "U+1C55", "U+A625", "U+A8D5", "U+A905",
        "U+A9D5", "U+A9F5", "U+AA55", "U+ABF5", "U+FF15", "U+104A5", "U+10D35", "U+1106B",
        "U+110F5", "U+1113B", "U+111D5", "U+112F5", "U+11455", "U+114D5", "U+11655",
        "U+116C5", "U+11735", "U+118E5", "U+11955", "U+11C55", "U+11D55", "U+11DA5",
        "U+16A65", "U+16AC5", "U+16B55", "U+1D7D3", "U+1D7DD", "U+1D7E7", "U+1D7F1",
        "U+1D7FB", "U+1E145", "U+1E2F5", "U+1E955", "U+1FBF5"},
       {"6", "U+0666", "U+06F6", "U+07C6", "U+096C", "U+09EC", "U+0A6C", "U+0AEC",
        "U+0B6C", "U+0BEC", "U+0C6C", "U+0CEC", "U+0D6C", "U+0DEC", "U+0E56", "U+0ED6",
        "U+0F26", "U+1046", "U+1096", "U+17E6", "U+1816", "U+194C", "U+19D6", "U+1A86",
        "U+1A96", "U+1B56", "U+1BB6", "U+1C46", "U+1C56", "U+A626", "U+A8D6", "U+A906",
        "U+A9D6", "U+A9F6", "U+AA56", "U+ABF6", "U+FF16", "U+104A6", "U+10D36", "U+1106C",
        "U+110F6", "U+1113C", "U+111D6", "U+112F6", "U+11456", "U+114D6", "U+11656",
        "U+116C6", "U+11736", "U+118E6", "U+11956", "U+11C56", "U+11D56", "U+11DA6",
        "U+16A66", "U+16AC6", "U+16B56", "U+1D7D4", "U+1D7DE", "U+1D7E8", "U+1D7F2",
        "U+1D7FC", "U+1E146", "U+1E2F6", "U+1E956", "U+1FBF6"},
       {"7", "U+0667", "U+06F7", "U+07C7", "U+096D", "U+09ED", "U+0A6D", "U+0AED",
        "U+0B6D", "U+0BED", "U+0C6D", "U+0CED", "U+0D6D", "U+0DED", "U+0E57", "U+0ED7",
        "U+0F27", "U+1047", "U+1097", "U+17E7", "U+1817", "U+194D", "U+19D7", "U+1A87",
        "U+1A97", "U+1B57", "U+1BB7", "U+1C47", "U+1C57", "U+A627", "U+A8D7", "U+A907",
        "U+A9D7", "U+A9F7", "U+AA57", "U+ABF7", "U+FF17", "U+104A7", "U+10D37", "U+1106D",
        "U+110F7", "U+1113D", "U+111D7", "U+112F7", "U+11457", "U+114D7", "U+11657",
        "U+116C7", "U+11737", "U+118E7", "U+11957", "U+11C57", "U+11D57", "U+11DA7",
        "U+16A67", "U+16AC7", "U+16B57", "U+1D7D5", "U+1D7DF", "U+1D7E9", "U+1D7F3",
        "U+1D7FD", "U+1E147", "U+1E2F7", "U+1E957", "U+1FBF7"},
       {"8", "U+0668", "U+06F8", "U+07C8", "U+096E", "U+09EE", "U+0A6E", "U+0AEE",
        "U+0B6E", "U+0BEE", "U+0C6E", "U+0CEE", "U+0D6E", "U+0DEE", "U+0E58", "U+0ED8",
        "U+0F28", "U+1048", "U+1098", "U+17E8", "U+1818", "U+194E", "U+19D8", "U+1A88",
        "U+1A98", "U+1B58", "U+1BB8", "U+1C48", "U+1C58", "U+A628", "U+A8D8", "U+A908",
        "U+A9D8", "U+A9F8", "U+AA58", "U+ABF8", "U+FF18", "U+104A8", "U+10D38", "U+1106E",
        "U+110F8", "U+1113E", "U+111D8", "U+112F8", "U+11458", "U+114D8", "U+11658",
        "U+116C8", "U+11738", "U+118E8", "U+11958", "U+11C58", "U+11D58", "U+11DA8",
        "U+16A68", "U+16AC8", "U+16B58", "U+1D7D6", "U+1D7E0", "U+1D7EA", "U+1D7F4",
        "U+1D7FE", "U+1E148", "U+1E2F8", "U+1E958", "U+1FBF8"},
       {"9", "U+0669", "U+06F9", "U+07C9", "U+096F", "U+09EF", "U+0A6F", "U+0AEF",
        "U+0B6F", "U+0BEF", "U+0C6F", "U+0CEF", "U+0D6F", "U+0DEF", "U+0E59", "U+0ED9",
        "U+0F29", "U+1049", "U+1099", "U+17E9", "U+1819", "U+194F", "U+19D9", "U+1A89",
        "U+1A99", "U+1B59", "U+1BB9", "U+1C49", "U+1C59", "U+A629", "U+A8D9", "U+A909",
        "U+A9D9", "U+A9F9", "U+AA59", "U+ABF9", "U+FF19", "U+104A9", "U+10D39", "U+1106F",
        "U+110F9", "U+1113F", "U+111D9", "U+112F9", "U+11459", "U+114D9", "U+11659",
        "U+116C9", "U+11739", "U+118E9", "U+11959", "U+11C59", "U+11D59", "U+11DA9",
        "U+16A69", "U+16AC9", "U+16B59", "U+1D7D7", "U+1D7E1", "U+1D7EB", "U+1D7F5",
        "U+1D7FF", "U+1E149", "U+1E2F9", "U+1E959", "U+1FBF9"} >>

IsDigit(c) == \E d \in 1..10 : c \in DigitChars[d]

DigitVal(c) == (CHOOSE d \in 1..10 : c \in DigitChars[d]) - 1

(* A Python int that is not negative is written as the tuple of its decimal digits,
   the most significant first and without leading zeros (0 is <<0>>): the ints of
   Python have no bound.  NoStep stands where there is no int. *)
NoStep == <<>>

(* The int of a natural number *)
RECURSIVE PyNat(_)
PyNat(n) == IF n < 10 THEN <<n>> ELSE Append(PyNat(n \div 10), n % 10)

(* int(s) and str(n) raise ValueError beyond the limit of digits; int() counts
   every digit of s, leading zeros too *)
IntRaises(s) == Len(s) > IntMaxStrDigits

(* int(s) for a non-empty string of decimal digits within the limit *)
PyInt(s) ==
    LET nonzero == {i \in 1..Len(s) : DigitVal(s[i]) # 0}
        first == IF nonzero = {} THEN Len(s)
                 ELSE CHOOSE i \in nonzero : \A j \in nonzero : i <= j
    IN  [i \in 1..(Len(s) - first + 1) |-> DigitVal(s[first + i - 1])]

(* str(n) of an int, as an f-string formats it, within the limit *)
PyStrInt(n) == [i \in 1..Len(n) |-> Digits[n[i] + 1]]

(* The decimal name of a repository or revision number *)
RECURSIVE PyStrNat(_)
PyStrNat(n) ==
    IF n < 10 THEN <<Digits[n + 1]>>
    ELSE PyStrNat(n \div 10) \o <<Digits[(n % 10) + 1]>>

PyStr(n) == IF n < 0 THEN <<"-">> \o PyStrNat(-n) ELSE PyStrNat(n)

Val == <<"v", "a", "l">>
Train == <<"t", "r", "a", "i", "n">>
Splits == {Val, Train}

Saving == <<"S", "a", "v", "i", "n", "g">>
Loading == <<"L", "o", "a", "d", "i", "n", "g">>
LearningData ==
    <<" ", "L", "e", "a", "r", "n", "i", "n", "g", " ", "D", "y", "n", "a", "m", "i", "c", "s",
      " ", "D", "a", "t", "a", " ", "(">>
DashStep == <<")", " ", "-", "-", " ", "S", "t", "e", "p", " ">>

(* Mutant: the digits are expected in parentheses *)
PatternLiteralParen(data_split) == Saving \o LearningData \o data_split \o DashStep \o <<"(">>

(* The literal part of rf"Saving Learning Dynamics Data \({data_split}\) -- Step (\d+)";
   data_split is interpolated as it is (the splits here hold letters only). *)
PatternLiteral(data_split) == Saving \o LearningData \o data_split \o DashStep

(* The pattern matches at position i of s: the literal, then at least one digit *)
MatchesAt(s, i, lit) ==
    /\ i + Len(lit) <= Len(s)
    /\ \A j \in 1..Len(lit) : s[i + j - 1] = lit[j]
    /\ IsDigit(s[i + Len(lit)])

(* The longest run of digits of s that starts at i (\d+ is greedy) *)
DigitRun(s, i) ==
    LET stop == {j \in i..(Len(s) + 1) : j = Len(s) + 1 \/ ~IsDigit(s[j])}
        end == CHOOSE j \in stop : \A x \in stop : j <= x
    IN  SubSeq(s, i, end - 1)

(* re.search(pattern, title): group 1 of the leftmost match; <<>> stands for None *)
ReSearch(data_split, title) ==
    LET lit == PatternLiteral(data_split)
        at == {i \in 1..Len(title) : MatchesAt(title, i, lit)}
    IN  IF at = {} THEN <<>>
        ELSE LET i == CHOOSE x \in at : \A y \in at : x <= y
             IN  DigitRun(title, i + Len(lit))

---------------------------------------------------------------------------
(* The hub *)

Activations == <<"a", "c", "t", "i", "v", "a", "t", "i", "o", "n", "s">>
Weights == <<"w", "e", "i", "g", "h", "t", "s">>
Gradients == <<"g", "r", "a", "d", "i", "e", "n", "t", "s">>
StateTypes == <<Activations, Weights, Gradients>>
Dataset == <<"d", "a", "t", "a", "s", "e", "t">>

(* f"{data_split}_{state_type}.pt" *)
StateFileName(data_split, state_type) ==
    data_split \o <<"_">> \o state_type \o <<".", "p", "t">>

(* f"{data_split}_data" *)
DatasetDirName(data_split) == data_split \o <<"_", "d", "a", "t", "a">>

(* What Pico writes as the title of a save commit, and other titles a branch holds *)
Title(verb, data_split, tail) == verb \o LearningData \o data_split \o DashStep \o tail

(* The commits that may be pushed: a title and the files of learning_dynamics/
   in the tree of that commit *)
SaveEvents ==
    { [title |-> Title(Saving, Val, <<"1", "2">>),
       files |-> {StateFileName(Val, Weights)}],
      [title |-> Title(Saving, Val, <<"1", "U+0662">>),
       files |-> {StateFileName(Val, Activations)}],
      [title |-> Title(Saving, Val, <<"(", "1", "2", ")">>),
       files |-> {StateFileName(Val, Weights), StateFileName(Val, Gradients)}],
      [title |-> Title(Saving, Train, <<"5">>),
       files |-> {StateFileName(Train, Activations), DatasetDirName(Train)}],
      [title |-> Title(Saving, Val, <<"5">>),
       files |-> {StateFileName(Val, Activations), StateFileName(Val, Weights),
                  StateFileName(Val, Gradients)}],
      [title |-> Title(Saving, Val, <<"0", "5">>),
       files |-> {StateFileName(Val, Gradients)}],
      [title |-> Title(Loading, Val, <<"1", "2">>),
       files |-> {}],
      [title |-> Title(Saving, Val, <<>>),
       files |-> {}],
      [title |-> Title(Saving, Val, [i \in 1..(IntMaxStrDigits + 1) |-> "1"]),
       files |-> {}] }

Main == "main"

(* A new commit on a branch: list_repo_commits returns the newest commit first *)
Push(rb, e) ==
    /\ rb \in DOMAIN commits
    /\ Len(commits[rb]) < MaxCommits
    /\ LET n == Len(commits[rb]) + 1
           c == [commit_id |-> n, created_at |-> n, title |-> e.title, files |-> e.files]
       IN  commits' = [commits EXCEPT ![rb] = <<c>> \o @]
    /\ UNCHANGED <<fs, unreadable, cache, lru, listCalls, pc, pend, ret>>

---------------------------------------------------------------------------
(* _get_learning_dynamics_commits *)

(* Mutant: the first commit that claims a step keeps it *)
ProcessCommitFirstWins(d, commit, data_split) ==
    LET g == ReSearch(data_split, commit.title)
    IN  IF g = <<>> \/ PyInt(g) \in DOMAIN d THEN d
        ELSE LET step == PyInt(g)
                 entry == [commit_id |-> commit.commit_id,
                           date |-> commit.created_at,
                           message |-> commit.title]
             IN  [s \in (DOMAIN d) \cup {step} |-> IF s = step THEN entry ELSE d[s]]

(* The body of the for loop: one commit processed into the dict *)
ProcessCommit(d, commit, data_split) ==
    LET g == ReSearch(data_split, commit.title)
    IN  IF g = <<>> THEN d
        ELSE LET step == PyInt(g)
                 entry == [commit_id |-> commit.commit_id,
                           date |-> commit.created_at,
                           message |-> commit.title]
             IN  [s \in (DOMAIN d) \cup {step} |-> IF s = step THEN entry ELSE d[s]]

(* The dict built from the first n commits of the listing *)
RECURSIVE BuildPrefix(_, _, _)
BuildPrefix(listing, n, data_split) ==
    IF n = 0 THEN <<>>
    ELSE ProcessCommit(BuildPrefix(listing, n - 1, data_split), listing[n], data_split)

BuildIndex(listing, data_split) == BuildPrefix(listing, Len(listing), data_split)

(* int(match.group(1)) raises ValueError for a commit of the listing *)
IndexRaises(listing, data_split) ==
    \E n \in 1..Len(listing) : IntRaises(ReSearch(data_split, listing[n].title))

---------------------------------------------------------------------------
(* The filesystem and the state bundle loader *)

LearningDynamics ==
    <<"l", "e", "a", "r", "n", "i", "n", "g", "_", "d", "y", "n", "a", "m", "i", "c", "s">>
Checkpoint == <<"c", "h", "e", "c", "k", "p", "o", "i", "n", "t">>
TrainingConfig ==
    <<"t", "r", "a", "i", "n", "i", "n", "g", "_", "c", "o", "n", "f", "i", "g",
      ".", "y", "a", "m", "l">>
HubCache == <<"h", "u", "b">>

(* os.path.join(path, name) *)
Join(path, name) == Append(path, name)

(* os.path.exists(path) *)
Exists(files, path) == path \in files

(* The keys _get_checkpoint_states_dict looks for, in the order it looks for them *)
StateKeys == StateTypes \o <<Dataset>>

(* Mutant: the files of the val split are read whatever the split *)
StatePathValOnly(learning_dynamics_path, data_split, key) ==
    IF key = Dataset THEN Join(learning_dynamics_path, DatasetDirName(Val))
    ELSE Join(learning_dynamics_path, StateFileName(Val, key))

(* The path behind a key of the bundle *)
StatePath(learning_dynamics_path, data_split, key) ==
    IF key = Dataset THEN Join(learning_dynamics_path, DatasetDirName(data_split))
    ELSE Join(learning_dynamics_path, StateFileName(data_split, key))

(* snapshot_download(repo_id, revision) and hf_hub_download(repo_id, revision):
   the directory the revision's tree is materialized in, and the paths
   snapshot_download leaves there *)
SnapshotDir(repo_id, revision) == <<HubCache, PyStr(repo_id), PyStr(revision)>>

SnapshotPaths(repo_id, commit) ==
    LET dir == SnapshotDir(repo_id, commit.commit_id)
        ld == Join(dir, LearningDynamics)
    IN  {SubSeq(dir, 1, n) : n \in 1..Len(dir)}
        \cup {Join(dir, TrainingConfig)}
        \cup (IF commit.files = {} THEN {} ELSE {ld})
        \cup {Join(ld, f) : f \in commit.files}

(* The commit of a branch that a revision id names *)
CommitOf(rb, revision) ==
    LET l == commits[rb]
    IN  l[CHOOSE i \in 1..Len(l) : l[i].commit_id = revision]

---------------------------------------------------------------------------
(* Calls and their outcomes *)

NoKey == <<0, "", <<>>>>

(* The locals of a call in progress: its arguments, the listing the hub answered,
   the revision chosen, the directory the loader reads, the position of the loader
   in StateKeys and the bundle it has built so far.  quiet records that no other
   process has written to the run since the call began. *)
NoCall ==
    [op |-> "none", key |-> NoKey, path |-> <<>>, split |-> <<>>, step |-> NoStep,
     listing |-> <<>>, revision |-> 0, dir |-> <<>>, i |-> 0, bundle |-> <<>>,
     hit |-> FALSE, quiet |-> TRUE]

Call(op, key, path, split, step) ==
    [NoCall EXCEPT !.op = op, !.key = key, !.path = path, !.split = split, !.step = step]

Outcome(op, key, path, split, step, kind, msg, errStep, index, bundle, revision, hit) ==
    [op |-> op, key |-> key, path |-> path, split |-> split, step |-> step,
     kind |-> kind, msg |-> msg, errStep |-> errStep, index |-> index,
     bundle |-> bundle, revision |-> revision, hit |-> hit]

NoRet == Outcome("none", NoKey, <<>>, <<>>, NoStep, "none", "", NoStep, <<>>, <<>>, 0, FALSE)

(* The call of thread t returns or raises *)
Return(t, outcome) ==
    /\ ret' = [ret EXCEPT ![t] = outcome]
    /\ pc' = [pc EXCEPT ![t] = "idle"]
    /\ pend' = [pend EXCEPT ![t] = NoCall]

(* The call of thread t goes on to its next blocking call or filesystem test *)
Goto(t, label, call) ==
    /\ pc' = [pc EXCEPT ![t] = label]
    /\ pend' = [pend EXCEPT ![t] = call]
    /\ ret' = ret

(* A call of thread t on the local filesystem begins and goes on to its next test:
   the caller holds no outcome until the call returns or raises *)
Begin(t, label, call) ==
    /\ pc' = [pc EXCEPT ![t] = label]
    /\ pend' = [pend EXCEPT ![t] = call]
    /\ ret' = [ret EXCEPT ![t] = NoRet]

(* The locals of _get_checkpoint_states_dict when it is entered for directory dir:
   states = {} *)
LoaderLocals(call, dir) == [call EXCEPT !.dir = dir, !.i = 1, !.bundle = <<>>]

(* _get_checkpoint_states_dict is entered for directory dir by a call in progress *)
StartLoader(t, call, dir) == Goto(t, "load", LoaderLocals(call, dir))

(* The loader has dealt with the key at position call.i and holds bundle: it goes on
   to the test of the next key, or returns the bundle after the last one *)
NextStateKey(t, call, bundle) ==
    IF call.i < Len(StateKeys)
    THEN Goto(t, "load", [call EXCEPT !.i = @ + 1, !.bundle = bundle])
    ELSE Return(t, Outcome(call.op, call.key, call.path, call.split, call.step,
                           "ok", "", NoStep, <<>>, bundle, call.revision, call.hit))

(* os.path.exists(file_path) / os.path.exists(dataset_path) for the key at position
   call.i: a path that exists is loaded next, a path that does not is passed over *)
TestStatePath(t) ==
    /\ pc[t] = "load"
    /\ LET call == pend[t]
           path == StatePath(call.dir, call.split, StateKeys[call.i])
       IN  IF Exists(fs, path)
           THEN Goto(t, "read", call)
           ELSE NextStateKey(t, call, call.bundle)
    /\ UNCHANGED <<commits, fs, unreadable, cache, lru, listCalls>>

(* torch.load(file_path) / load_from_disk(dataset_path) of the path that was found to
   exist: the bundle maps the key to the path it was loaded from.  The load raises,
   and so does the call, when the path is gone by now (FileNotFoundError) or its
   content cannot be read (the error of the library, LoadError here). *)
LoadStatePath(t) ==
    /\ pc[t] = "read"
    /\ LET call == pend[t]
           key == StateKeys[call.i]
           path == StatePath(call.dir, call.split, key)
           bundle == [x \in (DOMAIN call.bundle) \cup {key} |->
                         IF x = key THEN path ELSE call.bundle[x]]
       IN  IF ~Exists(fs, path)
           THEN Return(t, Outcome(call.op, call.key, call.path, call.split, call.step,
                                  "FileNotFoundError", "", NoStep, <<>>, <<>>,
                                  call.revision, call.hit))
           ELSE IF path \in unreadable
           THEN Return(t, Outcome(call.op, call.key, call.path, call.split, call.step,
                                  "LoadError", "", NoStep, <<>>, <<>>,
                                  call.revision, call.hit))
           ELSE NextStateKey(t, call, bundle)
    /\ UNCHANGED <<commits, fs, unreadable, cache, lru, listCalls>>

---------------------------------------------------------------------------
(* functools.lru_cache around _get_learning_dynamics_commits *)

(* Mutant: a full cache drops its most recently used key *)
LruStoreEvictNewest(c, order, k, v) ==
    IF k \in DOMAIN c THEN [cache |-> c, lru |-> order]
    ELSE IF Len(order) >= LruMaxSize
    THEN LET old == order[Len(order)]
         IN  [cache |-> [x \in ((DOMAIN c) \ {old}) \cup {k} |-> IF x = k THEN v ELSE c[x]],
              lru |-> Append(SubSeq(order, 1, Len(order) - 1), k)]
    ELSE [cache |-> [x \in (DOMAIN c) \cup {k} |-> IF x = k THEN v ELSE c[x]],
          lru |-> Append(order, k)]

(* A hit moves the key to the most recently used end *)
LruTouch(order, k) == SelectSeq(order, LAMBDA x : x # k) \o <<k>>

(* The result of a miss is stored: nothing changes when the key was stored while
   the function ran; a full cache drops its least recently used key first *)
LruStore(c, order, k, v) ==
    IF k \in DOMAIN c THEN [cache |-> c, lru |-> order]
    ELSE IF Len(order) >= LruMaxSize
    THEN LET old == Head(order)
         IN  [cache |-> [x \in ((DOMAIN c) \ {old}) \cup {k} |-> IF x = k THEN v ELSE c[x]],
              lru |-> Append(Tail(order), k)]
    ELSE [cache |-> [x \in (DOMAIN c) \cup {k} |-> IF x = k THEN v ELSE c[x]],
          lru |-> Append(order, k)]

(* Mutant: the function is not cached *)
CacheHitNever(c, k) == FALSE

(* The cache lookup of the wrapper *)
CacheHit(c, k) == k \in DOMAIN c

---------------------------------------------------------------------------
(* _get_learning_dynamics_commits and _download_checkpoint_states *)

(* Mutant: a step that is not in the index falls back to a step that is saved *)
RevisionForFallback(index, key, step) ==
    IF step \in DOMAIN index THEN index[step].commit_id
    ELSE IF DOMAIN index = {} THEN 0
    ELSE index[CHOOSE s \in DOMAIN index : TRUE].commit_id

(* Mutant: the snapshot of the branch tip is downloaded *)
RevisionForTip(index, key, step) ==
    IF step \notin DOMAIN index THEN 0 ELSE Head(commits[<<key[1], key[2]>>]).commit_id

(* The revision handed to snapshot_download; 0 when the step is not in the index
   and InvalidStepError is raised instead *)
RevisionFor(index, key, step) ==
    IF step \notin DOMAIN index THEN 0 ELSE index[step].commit_id

(* The resolver has returned index to the call of thread t: a direct call of the
   resolver returns it; _download_checkpoint_states looks the step up and raises
   InvalidStepError (ValueError when the step cannot be formatted into the message)
   or goes on to snapshot_download *)
AfterResolve(t, call, index, hit) ==
    LET k == call.key
        revision == RevisionFor(index, k, call.step)
    IN  IF call.op = "resolve"
        THEN Return(t, Outcome("resolve", k, <<>>, k[3], NoStep, "ok", "", NoStep, index, <<>>,
                               0, hit))
        ELSE IF revision = 0 /\ IntRaises(call.step)
        THEN Return(t, Outcome("download", k, <<>>, k[3], call.step, "ValueError",
                               "int_string_limit", NoStep, <<>>, <<>>, 0, hit))
        ELSE IF revision = 0
        THEN Return(t, Outcome("download", k, <<>>, k[3], call.step, "InvalidStepError",
                               "step_not_in_repo_branch", call.step, <<>>, <<>>, 0, hit))
        ELSE Goto(t, "snapshot",
                  [call EXCEPT !.listing = <<>>, !.revision = revision, !.hit = hit])

(* A call enters the lru_cache wrapper: a hit returns the cached dict, a miss goes on
   to run the function *)
Enter(t, call) ==
    /\ pc[t] = "idle"
    /\ IF CacheHit(cache, call.key)
       THEN /\ lru' = LruTouch(lru, call.key)
            /\ AfterResolve(t, call, cache[call.key], TRUE)
       ELSE /\ lru' = lru
            /\ Goto(t, "miss", call)
    /\ UNCHANGED <<commits, fs, unreadable, cache, listCalls>>

(* _get_learning_dynamics_commits(repo_id, branch, data_split), called directly *)
GetLearningDynamicsCommits(t, k) ==
    Enter(t, Call("resolve", k, <<>>, k[3], NoStep))

(* _download_checkpoint_states(repo_id, branch, step, data_split) *)
DownloadCheckpointStates(t, repo_id, branch, step, data_split) ==
    Enter(t, Call("download", <<repo_id, branch, data_split>>, <<>>, data_split, step))

(* api.list_repo_commits answers with the history the branch has now (a triple
   whose calls keep raising is listed MaxListCalls + 1 times at most) *)
ListRepoCommits(t) ==
    /\ pc[t] = "miss"
    /\ LET call == pend[t]
           k == call.key
           rb == <<k[1], k[2]>>
       IN  /\ rb \in DOMAIN commits
           /\ listCalls[k] <= MaxListCalls
           /\ listCalls' = [listCalls EXCEPT ![k] = @ + 1]
           /\ Goto(t, "listed", [call EXCEPT !.listing = commits[rb]])
    /\ UNCHANGED <<commits, fs, unreadable, cache, lru>>

(* api.list_repo_commits raises: the error propagates and nothing is cached *)
ListFails(t) ==
    /\ pc[t] = "miss"
    /\ LET call == pend[t]
           k == call.key
       IN  /\ listCalls[k] < MaxListCalls
           /\ listCalls' = [listCalls EXCEPT ![k] = @ + 1]
           /\ Return(t, Outcome(call.op, k, <<>>, k[3], call.step, "ServiceError", "", NoStep,
                                <<>>, <<>>, 0, FALSE))
    /\ UNCHANGED <<commits, fs, unreadable, cache, lru>>

(* The listing is parsed into the dict, the function returns it and the wrapper
   stores it; then the caller goes on.  When int() raises for a commit the error
   propagates and nothing is stored. *)
StoreIndex(t) ==
    /\ pc[t] = "listed"
    /\ LET call == pend[t]
           k == call.key
           index == BuildIndex(call.listing, k[3])
           stored == LruStore(cache, lru, k, index)
       IN  IF IndexRaises(call.listing, k[3])
           THEN /\ cache' = cache
                /\ lru' = lru
                /\ Return(t, Outcome(call.op, k, <<>>, k[3], call.step, "ValueError",
                                     "int_string_limit", NoStep, <<>>, <<>>, 0, FALSE))
           ELSE /\ cache' = stored.cache
                /\ lru' = stored.lru
                /\ AfterResolve(t, call, index, FALSE)
    /\ UNCHANGED <<commits, fs, unreadable, listCalls>>

(* snapshot_download(repo_id, revision=commit["commit_id"]) materializes the tree of
   the revision; the loader is entered for its learning_dynamics directory *)
SnapshotDownload(t) ==
    /\ pc[t] = "snapshot"
    /\ LET call == pend[t]
           k == call.key
           checkpoint_dir == SnapshotDir(k[1], call.revision)
           learning_dynamics_path == Join(checkpoint_dir, LearningDynamics)
           files == fs \cup SnapshotPaths(k[1], CommitOf(<<k[1], k[2]>>, call.revision))
       IN  /\ fs' = files
           /\ StartLoader(t, [call EXCEPT !.path = learning_dynamics_path],
                          learning_dynamics_path)
    /\ UNCHANGED <<commits, unreadable, cache, lru, listCalls>>

---------------------------------------------------------------------------
(* _load_checkpoint_states and the dispatch *)

(* Mutant: only the last digit of the step is formatted *)
StepDirNameLastDigit(step) == <<"s", "t", "e", "p", "_">> \o PyStrInt(<<step[Len(step)]>>)

(* f"step_{step}" *)
StepDirName(step) == <<"s", "t", "e", "p", "_">> \o PyStrInt(step)

(* Mutant: the run path is not tested *)
LoadCheckpointStatesNoRunPathTest(t, run_path, step, data_split) ==
    /\ pc[t] = "idle"
    /\ Begin(t, "checkpoint", Call("load", NoKey, run_path, data_split, step))
    /\ UNCHANGED <<commits, fs, unreadable, cache, lru, listCalls>>

(* _load_checkpoint_states(run_path, step, data_split), up to its first test:
   os.path.exists(run_path) *)
LoadCheckpointStates(t, run_path, step, data_split) ==
    /\ pc[t] = "idle"
    /\ IF ~Exists(fs, run_path)
       THEN Return(t, Outcome("load", NoKey, run_path, data_split, step, "ValueError",
                              "run_path_does_not_exist", NoStep, <<>>, <<>>, 0, FALSE))
       ELSE Begin(t, "checkpoint", Call("load", NoKey, run_path, data_split, step))
    /\ UNCHANGED <<commits, fs, unreadable, cache, lru, listCalls>>

(* os.path.exists(checkpoint_path) *)
CheckCheckpointPath(t) ==
    /\ pc[t] = "checkpoint"
    /\ LET call == pend[t]
           checkpoint_path == Join(call.path, Checkpoint)
       IN  IF ~Exists(fs, checkpoint_path)
           THEN Return(t, Outcome("load", NoKey, call.path, call.split, call.step,
                                  "ValueError", "no_checkpoint_folder", NoStep, <<>>, <<>>,
                                  0, FALSE))
           ELSE Goto(t, "step", call)
    /\ UNCHANGED <<commits, fs, unreadable, cache, lru, listCalls>>

(* f"step_{step}", which raises ValueError for a step beyond the limit of digits,
   and os.path.exists(step_path); the loader is entered for
   step_path/learning_dynamics *)
CheckStepPath(t) ==
    /\ pc[t] = "step"
    /\ LET call == pend[t]
           checkpoint_path == Join(call.path, Checkpoint)
           step_path == Join(checkpoint_path, StepDirName(call.step))
           learning_dynamics_path == Join(step_path, LearningDynamics)
       IN  IF IntRaises(call.step)
           THEN Return(t, Outcome("load", NoKey, call.path, call.split, call.step,
                                  "ValueError", "int_string_limit", NoStep, <<>>, <<>>,
                                  0, FALSE))
           ELSE IF ~Exists(fs, step_path)
           THEN Return(t, Outcome("load", NoKey, call.path, call.split, call.step,
                                  "InvalidStepError", "step_not_in_run_path", call.step,
                                  <<>>, <<>>, 0, FALSE))
           ELSE StartLoader(t, call, learning_dynamics_path)
    /\ UNCHANGED <<commits, fs, unreadable, cache, lru, listCalls>>

(* get_checkpoint_states(checkpoint_location, step, data_split) *)
GetCheckpointStates(t, location, step, data_split) ==
    IF location.is_remote
    THEN DownloadCheckpointStates(t, location.repo_id, location.branch, step, data_split)
    ELSE LoadCheckpointStates(t, location.run_path, step, data_split)

---------------------------------------------------------------------------
(* get_training_config.  The training_config.yaml files are taken to hold
   well-formed YAML; the config returned is identified by the path it was read from. *)

(* _load_training_config(run_path): open() of run_path/training_config.yaml *)
LoadTrainingConfig(t, run_path) ==
    /\ pc[t] = "idle"
    /\ LET path == Join(run_path, TrainingConfig)
       IN  Return(t, Outcome("config", NoKey, path, <<>>, NoStep,
                             IF Exists(fs, path) THEN "ok" ELSE "FileNotFoundError",
                             "", NoStep, <<>>, <<>>, 0, FALSE))
    /\ UNCHANGED <<commits, fs, unreadable, cache, lru, listCalls>>

(* _download_training_config(repo_id, branch), up to the return of hf_hub_download:
   the file of the branch tip is written below the hub cache; a branch without a
   commit has no such file and the hub's error propagates *)
DownloadTrainingConfig(t, repo_id, branch) ==
    /\ pc[t] = "idle"
    /\ <<repo_id, branch>> \in DOMAIN commits
    /\ LET history == commits[<<repo_id, branch>>]
           key == <<repo_id, branch, <<>>>>
       IN  IF history = <<>>
           THEN /\ fs' = fs
                /\ Return(t, Outcome("config", key, <<>>, <<>>, NoStep, "ServiceError", "", NoStep,
                                     <<>>, <<>>, 0, FALSE))
           ELSE LET revision == Head(history).commit_id
                    dir == SnapshotDir(repo_id, revision)
                    training_config_path == Join(dir, TrainingConfig)
                IN  /\ fs' = fs \cup {SubSeq(dir, 1, n) : n \in 1..Len(dir)}
                                \cup {training_config_path}
                    /\ Goto(t, "open",
                            [Call("config", key, training_config_path, <<>>, NoStep)
                                EXCEPT !.revision = revision])
    /\ UNCHANGED <<commits, unreadable, cache, lru, listCalls>>

(* open(training_config_path) and yaml.safe_load of the downloaded file *)
OpenTrainingConfig(t) ==
    /\ pc[t] = "open"
    /\ LET call == pend[t]
       IN  Return(t, Outcome("config", call.key, call.path, <<>>, NoStep,
                             IF Exists(fs, call.path) THEN "ok" ELSE "FileNotFoundError",
                             "", NoStep, <<>>, <<>>, call.revision, FALSE))
    /\ UNCHANGED <<commits, fs, unreadable, cache, lru, listCalls>>

(* get_training_config(checkpoint_location) *)
GetTrainingConfig(t, location) ==
    IF location.is_remote
    THEN DownloadTrainingConfig(t, location.repo_id, location.branch)
    ELSE LoadTrainingConfig(t, location.run_path)

---------------------------------------------------------------------------
(* The resolver called by one caller *)

RemoteLocation(repo_id, branch) ==
    [is_remote |-> TRUE, repo_id |-> repo_id, branch |-> branch, run_path |-> <<>>]

LocalLocation(run_path) ==
    [is_remote |-> FALSE, repo_id |-> 0, branch |-> "", run_path |-> run_path]

Repo == 1
Keys == {<<Repo, Main, s>> : s \in Splits}

InitRemote(keys) ==
    /\ commits = [rb \in {<<k[1], k[2]>> : k \in keys} |-> <<>>]
    /\ fs = {}
    /\ unreadable = {}
    /\ cache = <<>>
    /\ lru = <<>>
    /\ listCalls = [k \in keys |-> 0]
    /\ pc = [t \in Threads |-> "idle"]
    /\ pend = [t \in Threads |-> NoCall]
    /\ ret = [t \in Threads |-> NoRet]

Init == InitRemote(Keys)

(* The commits pushed while the resolver is called for both splits: those whose
   digits int() converts *)
ResolverEvents ==
    {e \in SaveEvents : \A p \in Splits : ~IntRaises(ReSearch(p, e.title))}

Next ==
    \/ \E e \in ResolverEvents : Push(<<Repo, Main>>, e)
    \/ \E k \in Keys : GetLearningDynamicsCommits(1, k)
    \/ ListRepoCommits(1)
    \/ ListFails(1)
    \/ StoreIndex(1)

Spec == Init /\ [][Next]_vars

---------------------------------------------------------------------------
(* The resolver called for split val by one caller, over every title a branch may
   hold, the title with more digits than int() converts included *)

NextTitles ==
    \/ \E e \in SaveEvents : Push(<<Repo, Main>>, e)
    \/ GetLearningDynamicsCommits(1, <<Repo, Main, Val>>)
    \/ ListRepoCommits(1)
    \/ ListFails(1)
    \/ StoreIndex(1)

SpecTitles == InitRemote({<<Repo, Main, Val>>}) /\ [][NextTitles]_vars

---------------------------------------------------------------------------
(* Remote retrieval by one caller *)

StepInputs == {PyNat(5), PyNat(200)}

(* The commits pushed while checkpoints are retrieved *)
DownloadEvents ==
    {e \in SaveEvents :
        e.title \in {Title(Saving, Val, <<"5">>), Title(Saving, Val, <<"0", "5">>),
                     Title(Saving, Train, <<"5">>)}}

NextDownload ==
    \/ \E e \in DownloadEvents : Push(<<Repo, Main>>, e)
    \/ \E s \in StepInputs, p \in Splits :
          GetCheckpointStates(1, RemoteLocation(Repo, Main), s, p)
    \/ GetTrainingConfig(1, RemoteLocation(Repo, Main))
    \/ ListRepoCommits(1)
    \/ ListFails(1)
    \/ StoreIndex(1)
    \/ SnapshotDownload(1)
    \/ TestStatePath(1)
    \/ LoadStatePath(1)
    \/ OpenTrainingConfig(1)

SpecDownload == Init /\ [][NextDownload]_vars

---------------------------------------------------------------------------
(* The resolver and remote retrieval called by several threads *)

ThreadEvents ==
    {e \in SaveEvents :
        e.title \in {Title(Saving, Val, <<"5">>), Title(Saving, Val, <<"0", "5">>)}}

NextThreads ==
    \/ \E e \in ThreadEvents : Push(<<Repo, Main>>, e)
    \/ \E t \in Threads : GetLearningDynamicsCommits(t, <<Repo, Main, Val>>)
    \/ \E t \in Threads : GetCheckpointStates(t, RemoteLocation(Repo, Main), PyNat(5), Val)
    \/ \E t \in Threads : ListRepoCommits(t)
    \/ \E t \in Threads : ListFails(t)
    \/ \E t \in Threads : StoreIndex(t)
    \/ \E t \in Threads : SnapshotDownload(t)
    \/ \E t \in Threads : TestStatePath(t)
    \/ \E t \in Threads : LoadStatePath(t)

SpecThreads == InitRemote({<<Repo, Main, Val>>}) /\ [][NextThreads]_vars

---------------------------------------------------------------------------
(* The resolver called for many triples by one caller.  The triples are taken
   in the order of their repository number, and the first one is called again
   at any time. *)

CacheKeys == {<<n, Main, Val>> : n \in 1..MaxKeys}

Called == {k \in DOMAIN listCalls : listCalls[k] > 0}

ProbeKeys == {<<n, Main, Val>> : n \in {1, Cardinality(Called) + 1} \cap (1..MaxKeys)}

InitCache ==
    /\ commits = [rb \in {<<k[1], k[2]>> : k \in CacheKeys} |->
                    <<[commit_id |-> 1, created_at |-> 1,
                       title |-> Title(Saving, Val, <<"5">>),
                       files |-> {StateFileName(Val, Weights)}]>>]
    /\ fs = {}
    /\ unreadable = {}
    /\ cache = <<>>
    /\ lru = <<>>
    /\ listCalls = [k \in CacheKeys |-> 0]
    /\ pc = [t \in Threads |-> "idle"]
    /\ pend = [t \in Threads |-> NoCall]
    /\ ret = [t \in Threads |-> NoRet]

NextCache ==
    \/ \E k \in ProbeKeys : GetLearningDynamicsCommits(1, k)
    \/ ListRepoCommits(1)
    \/ StoreIndex(1)

SpecCache == InitCache /\ [][NextCache]_vars

---------------------------------------------------------------------------
(* Local retrieval, while the run is being written *)

RunPath == << <<"r", "u", "n">> >>
Nonexistent == << <<"n", "o", "n", "e", "x", "i", "s", "t", "e", "n", "t">> >>
RunPaths == {RunPath, Nonexistent}

(* The steps a run saves, and the steps asked for *)
SavedSteps == {PyNat(12)}
LocalStepInputs == {PyNat(5), PyNat(12)}

(* The layout Pico writes: checkpoint/step_<step>/learning_dynamics/<files> *)
PicoStepDir(step) == <<"s", "t", "e", "p", "_">> \o PyStrInt(step)

(* The paths of every split that the loader tests in a directory: the seven entries
   of the layout in the docstring of get_checkpoint_states, and val_data *)
PicoFiles ==
    {StateFileName(p, StateTypes[i]) : p \in Splits, i \in 1..Len(StateTypes)}
    \cup {DatasetDirName(p) : p \in Splits}

PicoLearningDynamicsDir(step) ==
    Join(Join(Join(RunPath, Checkpoint), PicoStepDir(step)), LearningDynamics)

(* The paths the loader loads from *)
Artifacts == {Join(PicoLearningDynamicsDir(s), f) : s \in SavedSteps, f \in PicoFiles}

LocalUniverse ==
    {RunPath, Join(RunPath, Checkpoint), Join(RunPath, TrainingConfig)}
    \cup {Join(Join(RunPath, Checkpoint), PicoStepDir(s)) : s \in SavedSteps}
    \cup {PicoLearningDynamicsDir(s) : s \in SavedSteps}
    \cup Artifacts

(* Another process has written to the run: the calls in progress are no longer
   quiet *)
Disturbed ==
    [t \in Threads |-> IF pc[t] = "idle" THEN pend[t] ELSE [pend[t] EXCEPT !.quiet = FALSE]]

(* A directory or file of the run appears: its parent exists.  What appears at the
   path of an artifact loads, or does not (a file not yet complete, a directory named
   as a .pt file, a file named as the dataset directory). *)
Create(path, loads) ==
    /\ path \notin fs
    /\ Cardinality(fs) < MaxPaths
    /\ Len(path) = 1 \/ SubSeq(path, 1, Len(path) - 1) \in fs
    /\ loads \/ path \in Artifacts
    /\ fs' = fs \cup {path}
    /\ unreadable' = IF loads THEN unreadable ELSE unreadable \cup {path}
    /\ pend' = Disturbed
    /\ UNCHANGED <<commits, cache, lru, listCalls, pc, ret>>

(* The content of an artifact is replaced: what did not load is complete now, or
   what loaded is being written again *)
Rewrite(path) ==
    /\ path \in fs \cap Artifacts
    /\ unreadable' = IF path \in unreadable THEN unreadable \ {path}
                     ELSE unreadable \cup {path}
    /\ pend' = Disturbed
    /\ UNCHANGED <<commits, fs, cache, lru, listCalls, pc, ret>>

(* An artifact is removed *)
Remove(path) ==
    /\ path \in fs \cap Artifacts
    /\ fs' = fs \ {path}
    /\ unreadable' = unreadable \ {path}
    /\ pend' = Disturbed
    /\ UNCHANGED <<commits, cache, lru, listCalls, pc, ret>>

(* _get_checkpoint_states_dict(learning_dynamics_path, data_split), called directly *)
LoadStatesDict(t, learning_dynamics_path, data_split) ==
    /\ pc[t] = "idle"
    /\ Begin(t, "load",
             LoaderLocals(Call("dict", NoKey, learning_dynamics_path, data_split, NoStep),
                          learning_dynamics_path))
    /\ UNCHANGED <<commits, fs, unreadable, cache, lru, listCalls>>

InitLocal ==
    /\ commits = <<>>
    /\ fs = {}
    /\ unreadable = {}
    /\ cache = <<>>
    /\ lru = <<>>
    /\ listCalls = <<>>
    /\ pc = [t \in Threads |-> "idle"]
    /\ pend = [t \in Threads |-> NoCall]
    /\ ret = [t \in Threads |-> NoRet]

NextLocal ==
    \/ \E path \in LocalUniverse, loads \in BOOLEAN : Create(path, loads)
    \/ \E path \in Artifacts : Rewrite(path)
    \/ \E path \in Artifacts : Remove(path)
    \/ \E rp \in RunPaths, s \in LocalStepInputs, p \in Splits :
          LoadCheckpointStates(1, rp, s, p)
    \/ \E rp \in RunPaths, s \in LocalStepInputs, p \in Splits :
          GetCheckpointStates(1, LocalLocation(rp), s, p)
    \/ \E rp \in RunPaths : GetTrainingConfig(1, LocalLocation(rp))
    \/ \E s \in LocalStepInputs, p \in Splits :
          LoadStatesDict(1, PicoLearningDynamicsDir(s), p)
    \/ CheckCheckpointPath(1)
    \/ CheckStepPath(1)
    \/ TestStatePath(1)
    \/ LoadStatePath(1)

SpecLocal == InitLocal /\ [][NextLocal]_vars

---------------------------------------------------------------------------
(* Properties of the resolver *)

ValKey == <<Repo, Main, Val>>

(* The step of this transition stores the dict built for key k *)
Built(k) == k \notin DOMAIN cache /\ k \in DOMAIN cache'

(* In this transition the call of thread t parses its listing and stores the dict *)
Storing(t) == pc[t] = "listed" /\ pc'[t] # "listed"

(* Thread t completes a call in this transition, with a new outcome *)
Completes(t) == ret'[t] # ret[t] /\ ret'[t] # NoRet

(* The titles that, by the commit message contract, save split p at step s *)
SaveTitles(p, s) ==
    IF s = PyNat(12) THEN {Title(Saving, p, <<"1", "2">>), Title(Saving, p, <<"1", "U+0662">>)}
    ELSE IF s = PyNat(5) THEN {Title(Saving, p, <<"5">>), Title(Saving, p, <<"0", "5">>)}
    ELSE {}

ParenTitle(p) == Title(Saving, p, <<"(", "1", "2", ")">>)

(* The titles of split p whose digits are more than int() converts *)
OverlongTitles(p) == {Title(Saving, p, [i \in 1..(IntMaxStrDigits + 1) |-> "1"])}

EntryOf(commit) ==
    [commit_id |-> commit.commit_id, date |-> commit.created_at, message |-> commit.title]

(* C1 as amended: the listing a resolver call parses is the history the hub answered
   with.  Whenever the resolver builds the index of a triple with split p, a commit
   titled "Saving Learning Dynamics Data (p) -- Step 12" (decimal digits directly
   after "Step ") gives an entry under step 12, every entry of the index comes from a
   title of split p with digits directly after "Step " (so a title in the form
   "Step (12)", a title of another split, a title without digits and a title with
   another verb give no entry), and the call returns the index and raises nothing.
   When the listing holds a title of split p with more than 4300 digits after
   "Step " the call raises ValueError instead and nothing is cached. *)
C1_TitleParsing ==
    [][\A t \in Threads :
        /\ (pc[t] = "miss" /\ pc'[t] = "listed") =>
              pend'[t].listing = commits[<<pend[t].key[1], pend[t].key[2]>>]
        /\ Storing(t) =>
              LET k == pend[t].key
                  L == pend[t].listing
                  idx == cache'[k]
                  p == k[3]
              IN  /\ pc'[t] = "idle"
                  /\ ret'[t].key = k
                  /\ IF \E i \in 1..Len(L) : L[i].title \in OverlongTitles(p)
                     THEN /\ ret'[t].kind = "ValueError"
                          /\ ret'[t].index = <<>>
                          /\ cache' = cache
                     ELSE /\ k \in DOMAIN cache'
                          /\ \A i \in 1..Len(L) :
                                /\ L[i].title \in SaveTitles(p, PyNat(12))
                                      => PyNat(12) \in DOMAIN idx
                                /\ L[i].title \in SaveTitles(p, PyNat(5))
                                      => PyNat(5) \in DOMAIN idx
                          /\ \A s \in DOMAIN idx : idx[s].message \in SaveTitles(p, s)
                          /\ (\A i \in 1..Len(L) :
                                  L[i].title \notin SaveTitles(p, PyNat(12))
                                                     \cup SaveTitles(p, PyNat(5)))
                                => idx = <<>>
                          /\ ret'[t].kind = "ok"
                          /\ ret'[t].index = idx]_vars

(* C1 as first stated: resolving for val, the title
   "Saving Learning Dynamics Data (val) -- Step (12)" gives an entry under step 12, a
   title of split train gives none, and titles without digits or with another verb
   give none. *)
C1_Original ==
    [][(Storing(1) /\ pend[1].key = ValKey /\ ValKey \in DOMAIN cache') =>
          LET L == pend[1].listing
              idx == cache'[ValKey]
          IN  /\ (\E i \in 1..Len(L) : L[i].title = ParenTitle(Val)) => PyNat(12) \in DOMAIN idx
              /\ \A s \in DOMAIN idx :
                    idx[s].message \notin
                        {Title(Saving, Train, <<"5">>), Title(Loading, Val, <<"1", "2">>),
                         Title(Saving, Val, <<>>)}]_vars

(* C1 witness: the val index was built from a listing that holds the title with
   "Step 12" and the title with "Step (12)", and holds step 12 of the former only *)
C1_Witness ==
    LET L == commits[<<Repo, Main>>]
    IN  /\ ValKey \in DOMAIN cache
        /\ Len(L) = 2
        /\ L[1].title = Title(Saving, Val, <<"1", "2">>)
        /\ L[2].title = ParenTitle(Val)
        /\ DOMAIN cache[ValKey] = {PyNat(12)}
        /\ cache[ValKey][PyNat(12)].commit_id = 2

(* C2: once the dict of a triple is cached (the first call returned), the dict stays
   as it is, no transition issues a listing call for that triple, and a call of the
   resolver with that triple returns the cached dict as a hit; a listing call is
   issued only by a call that missed the cache, once, and the dict that call stores is
   the one it returns. *)
C2_SecondCallHits ==
    [][\A k \in DOMAIN listCalls :
        /\ listCalls'[k] # listCalls[k] =>
              /\ listCalls'[k] = listCalls[k] + 1
              /\ \E t \in Threads :
                    pc[t] = "miss" /\ pc'[t] # "miss" /\ pend[t].key = k
        /\ Built(k) =>
              \E t \in Threads :
                  /\ Storing(t)
                  /\ pend[t].key = k
                  /\ ~ret'[t].hit
                  /\ ret'[t].index = cache'[k]
        /\ k \in DOMAIN cache =>
              /\ listCalls'[k] = listCalls[k]
              /\ k \in DOMAIN cache'
              /\ cache'[k] = cache[k]
              /\ \A t \in Threads :
                    /\ pc'[t] \in {"miss", "listed"} => pend'[t].key # k
                    /\ (Completes(t) /\ ret'[t].op = "resolve" /\ ret'[t].key = k)
                          => /\ ret'[t].hit
                             /\ ret'[t].kind = "ok"
                             /\ ret'[t].index = cache[k]]_vars

(* C2 witness: a resolver call was a hit on a non-empty dict after exactly one listing *)
C2_Witness ==
    /\ ret[1].op = "resolve"
    /\ ret[1].hit
    /\ ret[1].index # <<>>
    /\ listCalls[ret[1].key] = 1

(* C7: in a built index the entry of a step is that of the commit processed last,
   in listing order, among the commits that claim the step. *)
C7_LastProcessedWins ==
    [][\A t \in Threads :
        (Storing(t) /\ pend[t].key \in DOMAIN cache') =>
            LET k == pend[t].key
                L == pend[t].listing
                idx == cache'[k]
            IN  \A s \in DOMAIN idx :
                    LET claim == {i \in 1..Len(L) : L[i].title \in SaveTitles(k[3], s)}
                    IN  /\ claim # {}
                        /\ idx[s] = EntryOf(L[CHOOSE i \in claim : \A j \in claim : j <= i])]_vars

(* C7 witness: two commits claim step 5 and the index holds the one listed last *)
C7_Witness ==
    LET L == commits[<<Repo, Main>>]
    IN  /\ ValKey \in DOMAIN cache
        /\ Len(L) = 2
        /\ L[1].title = Title(Saving, Val, <<"5">>)
        /\ L[2].title = Title(Saving, Val, <<"0", "5">>)
        /\ DOMAIN cache[ValKey] = {PyNat(5)}
        /\ cache[ValKey][PyNat(5)] = EntryOf(L[2])

---------------------------------------------------------------------------
(* Properties of remote retrieval *)

(* Path a is a prefix of path b *)
IsPrefix(a, b) == Len(a) <= Len(b) /\ SubSeq(b, 1, Len(a)) = a

(* C5: a remote retrieval whose step is not a key of the commit index raises
   InvalidStepError carrying that step, as soon as the index is known, and
   materializes nothing: snapshot_download is reached only by a retrieval whose step
   is in the index, and no other step of a retrieval changes the filesystem. *)
C5_AbsentStep ==
    [][/\ \A t \in Threads :
            /\ (/\ Completes(t)
                /\ ret'[t].op = "download"
                /\ ret'[t].kind # "ServiceError"
                /\ ret'[t].key \in DOMAIN cache'
                /\ ret'[t].step \notin DOMAIN cache'[ret'[t].key])
                   => /\ ret'[t].kind = "InvalidStepError"
                      /\ ret'[t].errStep = ret'[t].step
                      /\ ret'[t].revision = 0
                      /\ ret'[t].bundle = <<>>
                      /\ pc[t] \in {"idle", "listed"}
                      /\ fs' = fs
            /\ (Completes(t) /\ ret'[t].kind = "InvalidStepError") =>
                  ret'[t].step \notin DOMAIN cache'[ret'[t].key]
            /\ (Storing(t) /\ pend[t].op = "download"
                /\ pend[t].key \in DOMAIN cache'
                /\ pend[t].step \notin DOMAIN cache'[pend[t].key])
                   => pc'[t] = "idle" /\ ret'[t].kind = "InvalidStepError"
            /\ pc'[t] = "snapshot" => pend'[t].step \in DOMAIN cache'[pend'[t].key]
       /\ fs' # fs =>
            \E t \in Threads :
                \/ /\ pc[t] = "snapshot"
                   /\ pend[t].step \in DOMAIN cache[pend[t].key]
                \/ pend'[t].op = "config"]_vars

(* C5 witness: step 200 was asked of a non-empty index and InvalidStepError(200) raised *)
C5_Witness ==
    /\ ret[1].op = "download"
    /\ ret[1].kind = "InvalidStepError"
    /\ ret[1].errStep = PyNat(200)
    /\ ret[1].key \in DOMAIN cache
    /\ cache[ret[1].key] # <<>>

(* C8: a remote retrieval that materializes content asks snapshot_download for the
   commit_id that the index of its triple holds under the requested step, an entry
   whose title saves that split at that step; the download writes below the directory
   of that revision only, and the bundle is read from learning_dynamics/ of that
   snapshot and holds the files of that commit's tree. *)
C8_RevisionAddressed ==
    [][\A t \in Threads :
        /\ pc'[t] = "snapshot" =>
              LET c == pend'[t]
                  idx == cache'[c.key]
              IN  /\ c.step \in DOMAIN idx
                  /\ c.revision = idx[c.step].commit_id
                  /\ idx[c.step].message \in SaveTitles(c.key[3], c.step)
        /\ (pc[t] = "snapshot" /\ pc'[t] # "snapshot") =>
              LET dir == SnapshotDir(pend[t].key[1], pend[t].revision)
              IN  /\ pc'[t] = "load"
                  /\ pend'[t].revision = pend[t].revision
                  /\ pend'[t].dir = Join(dir, LearningDynamics)
                  /\ \A x \in fs' \ fs : IsPrefix(x, dir) \/ IsPrefix(dir, x)
        /\ (Completes(t) /\ ret'[t].op = "download" /\ ret'[t].kind = "ok") =>
              LET r == ret'[t]
                  idx == cache'[r.key]
                  dir == SnapshotDir(r.key[1], r.revision)
                  tree == CommitOf(<<r.key[1], r.key[2]>>, r.revision).files
              IN  /\ r.step \in DOMAIN idx
                  /\ r.revision = idx[r.step].commit_id
                  /\ r.path = Join(dir, LearningDynamics)
                  /\ pend[t].dir = r.path
                  /\ \A i \in 1..Len(StateTypes) :
                        StateTypes[i] \in DOMAIN r.bundle
                            <=> StateFileName(r.split, StateTypes[i]) \in tree
                  /\ Dataset \in DOMAIN r.bundle <=> DatasetDirName(r.split) \in tree
                  /\ \A key \in DOMAIN r.bundle : IsPrefix(r.path, r.bundle[key])]_vars

(* C8 witness: the snapshot downloaded for step 5 of val is not the branch tip *)
C8_Witness ==
    LET L == commits[<<Repo, Main>>]
    IN  /\ ret[1].op = "download"
        /\ ret[1].kind = "ok"
        /\ ret[1].key = ValKey
        /\ ret[1].step = PyNat(5)
        /\ Len(L) = 2
        /\ L[1].title = Title(Saving, Train, <<"5">>)
        /\ ret[1].revision = 1
        /\ DOMAIN ret[1].bundle = {Activations, Weights, Gradients}

---------------------------------------------------------------------------
(* Properties of the cache over many triples *)

(* C9 as amended: the cache is functools.lru_cache with its default maxsize of 128.
   While the dict of a triple is cached no listing call is issued for the triple and
   the dict does not change; it leaves the cache only when the cache holds 128 dicts
   and the dict of another triple is stored, and then it is the least recently used
   one, never the triple of the call before.  A hit returns the cached dict, and a
   call for a triple whose dict is not cached lists its history once more and stores
   the dict built from that listing. *)
C9_LruLifetime ==
    [][/\ Cardinality(DOMAIN cache') <= LruMaxSize
       /\ \A k \in DOMAIN listCalls :
            /\ (pc[1] = "miss" /\ pc'[1] = "listed" /\ pend[1].key = k)
                  => k \notin DOMAIN cache /\ listCalls'[k] = listCalls[k] + 1
            /\ Built(k) => Storing(1) /\ pend[1].key = k /\ ret'[1].index = cache'[k]
       /\ \A k \in DOMAIN cache :
            /\ listCalls'[k] = listCalls[k]
            /\ k \in DOMAIN cache' => cache'[k] = cache[k]
            /\ k \notin DOMAIN cache' =>
                  /\ Cardinality(DOMAIN cache) = LruMaxSize
                  /\ \E new \in DOMAIN cache' : new \notin DOMAIN cache
                  /\ k = Head(lru)
                  /\ k # ret[1].key
            /\ (Completes(1) /\ ret'[1].key = k) =>
                  ret'[1].hit /\ ret'[1].index = cache[k]]_vars

(* C9 as first stated: a dict that was built is never evicted nor rebuilt, so the
   history of its triple is listed at most once and later calls return the same dict. *)
C9_Original ==
    [][\A k \in DOMAIN cache :
          /\ k \in DOMAIN cache'
          /\ cache'[k] = cache[k]
          /\ listCalls'[k] = listCalls[k]]_vars

(* C9 witness: the history of the first triple was listed a second time, after its
   dict had left the full cache *)
C9_Witness ==
    /\ listCalls[<<1, Main, Val>>] = 2
    /\ Cardinality(DOMAIN cache) = LruMaxSize
    /\ \E k \in Called : k \notin DOMAIN cache

---------------------------------------------------------------------------
(* Properties of the resolver under concurrent callers *)

(* C10: the population of the dict of a triple is mutually exclusive: no two threads
   are past a cache miss for the same triple at once, so once the dict of a triple is
   cached no listing call is issued for it and every resolver call that completes for
   it returns the cached dict. *)
C10_ExclusivePopulation ==
    [][/\ \A t \in Threads, u \in Threads :
            (t # u /\ pc'[t] \in {"miss", "listed"} /\ pc'[u] \in {"miss", "listed"})
                => pend'[t].key # pend'[u].key
       /\ \A k \in DOMAIN cache :
            /\ listCalls'[k] = listCalls[k]
            /\ \A t \in Threads :
                  (Completes(t) /\ ret'[t].op = "resolve" /\ ret'[t].key = k
                   /\ ret'[t].kind = "ok")
                      => ret'[t].index = cache[k]]_vars

---------------------------------------------------------------------------
(* Properties of local retrieval *)

CheckpointPath == Join(RunPath, Checkpoint)

(* The steps the run holds a directory for, in Pico's layout *)
StepsSaved == {s \in SavedSteps : Join(CheckpointPath, PicoStepDir(s)) \in fs}

(* The path Pico writes for key of split p in directory d *)
PicoStatePath(d, p, key) ==
    IF key = Dataset THEN Join(d, DatasetDirName(p)) ELSE Join(d, StateFileName(p, key))

(* The keys and paths a bundle must hold for directory d and split p *)
ExpectedBundle(d, p) ==
    [key \in {StateKeys[i] : i \in {j \in 1..Len(StateKeys) :
                                       PicoStatePath(d, p, StateKeys[j]) \in fs}}
        |-> PicoStatePath(d, p, key)]

(* The checks of _load_checkpoint_states in their order, with errorKind the error
   of a missing run path or checkpoint folder *)
LoadChecksInOrder(errorKind) ==
    \A t \in Threads :
        /\ (Completes(t) /\ ret'[t].op = "load") =>
              LET r == ret'[t]
                  ckpt == Join(r.path, Checkpoint)
              IN  /\ r.path \notin fs =>
                        r.kind = errorKind /\ r.msg = "run_path_does_not_exist"
                  /\ (r.path \in fs /\ ckpt \notin fs)
                        => r.kind = errorKind /\ r.msg = "no_checkpoint_folder"
                  /\ r.kind = "InvalidStepError" => r.path \in fs /\ ckpt \in fs
        /\ pc'[t] = "checkpoint" => pend'[t].path \in fs
        /\ pc'[t] = "step" => Join(pend'[t].path, Checkpoint) \in fs

(* C3 as amended: _load_checkpoint_states raises ValueError when run_path does not
   exist, whatever the step and split, and tests nothing else; it raises ValueError
   when run_path exists and run_path/checkpoint does not, and looks for the step, and
   raises InvalidStepError, only when both exist. *)
C3_ValueErrorFirst == [][LoadChecksInOrder("ValueError")]_vars

(* C3 as first stated: the two structural faults raise LocationNotFoundError. *)
C3_Original == [][LoadChecksInOrder("LocationNotFoundError")]_vars

(* C3 witness: the run path exists, its checkpoint folder does not, ValueError *)
C3_Witness ==
    /\ ret[1].op = "load"
    /\ ret[1].kind = "ValueError"
    /\ ret[1].msg = "no_checkpoint_folder"
    /\ RunPath \in fs

(* The artifacts of split p in directory d that exist and do not load *)
Unloadable(d, p) ==
    {PicoStatePath(d, p, StateKeys[i]) : i \in 1..Len(StateKeys)} \cap unreadable

(* The test of the step directory by _load_checkpoint_states, and the outcome of a
   retrieval from a run that holds run_path and run_path/checkpoint and is not written
   during the call, which returns without error for a saved step exactly when
   okFor(d, p) holds of the directory d and split p it loads *)
SavedStepsLoad(okFor(_, _)) ==
    \A t \in Threads :
        /\ (pc[t] = "step" /\ pc'[t] # "step" /\ pend[t].path = RunPath) =>
              IF pend[t].step \in StepsSaved
              THEN /\ pc'[t] = "load"
                   /\ pend'[t].dir = PicoLearningDynamicsDir(pend[t].step)
              ELSE /\ pc'[t] = "idle"
                   /\ ret'[t].kind = "InvalidStepError"
                   /\ ret'[t].errStep = pend[t].step
        /\ (/\ Completes(t)
            /\ ret'[t].op = "load"
            /\ ret'[t].path = RunPath
            /\ pend[t].quiet
            /\ RunPath \in fs
            /\ CheckpointPath \in fs)
               => LET r == ret'[t]
                  IN  IF r.step \notin StepsSaved
                      THEN r.kind = "InvalidStepError" /\ r.errStep = r.step
                      ELSE IF okFor(PicoLearningDynamicsDir(r.step), r.split)
                      THEN r.kind = "ok"
                      ELSE r.kind = "LoadError" /\ r.bundle = <<>>

AllLoad(d, p) == Unloadable(d, p) = {}

Always(d, p) == TRUE

(* C4 as amended: with run_path and run_path/checkpoint present and the run not
   written during the call, retrieval of a step the run saved returns a bundle without
   error when every artifact of the split that exists in the step's directory loads,
   and raises the error of the load when one of them does not; retrieval of any other
   step raises InvalidStepError carrying that step. *)
C4_SavedStepsLoad == [][SavedStepsLoad(AllLoad)]_vars

(* C4 as first stated: retrieval of a saved step returns a bundle without error. *)
C4_Original == [][SavedStepsLoad(Always)]_vars

(* C4 witness: step 12 was saved with val_gradients.pt and val_data, which load, and
   the retrieval of step 12 for val returned them both *)
C4_Witness ==
    /\ ret[1].op = "load"
    /\ ret[1].kind = "ok"
    /\ ret[1].step = PyNat(12)
    /\ ret[1].split = Val
    /\ DOMAIN ret[1].bundle = {Gradients, Dataset}
    /\ StepsSaved = {PyNat(12)}
    /\ unreadable = {}

(* The steps of the loader *)
LoaderTests(t) == pc[t] = "load" /\ (pc'[t] # "load" \/ pend'[t].i # pend[t].i)

LoaderLoads(t) == pc[t] = "read" /\ pc'[t] # "read"

(* The loader of thread t is done with the key at position pend[t].i and holds
   bundle b *)
LoaderGoesOn(t, b) ==
    IF pend[t].i < Len(StateKeys)
    THEN pc'[t] = "load" /\ pend'[t] = [pend[t] EXCEPT !.i = @ + 1, !.bundle = b]
    ELSE pc'[t] = "idle" /\ ret'[t].kind = "ok" /\ ret'[t].bundle = b

(* The loader, for directory d and split p, tests d/{p}_activations.pt,
   d/{p}_weights.pt, d/{p}_gradients.pt and d/{p}_data in this order and loads each
   path that exists; a call that the run is not written during returns the bundle
   with a key exactly for the paths that exist when okFor(d, p) holds *)
KeysIffFiles(okFor(_, _)) ==
    \A t \in Threads :
        /\ (pc[t] # "load" /\ pc[t] # "read" /\ pc'[t] = "load") =>
              pend'[t].i = 1 /\ pend'[t].bundle = <<>>
        /\ LoaderTests(t) =>
              LET c == pend[t]
                  path == PicoStatePath(c.dir, c.split, StateKeys[c.i])
              IN  IF path \in fs
                  THEN pc'[t] = "read" /\ pend'[t] = c
                  ELSE LoaderGoesOn(t, c.bundle)
        /\ LoaderLoads(t) =>
              LET c == pend[t]
                  key == StateKeys[c.i]
                  path == PicoStatePath(c.dir, c.split, key)
              IN  IF path \in fs \ unreadable
                  THEN LoaderGoesOn(t, [x \in (DOMAIN c.bundle) \cup {key} |->
                                           IF x = key THEN path ELSE c.bundle[x]])
                  ELSE /\ pc'[t] = "idle"
                       /\ ret'[t].kind = IF path \in fs THEN "LoadError"
                                         ELSE "FileNotFoundError"
                       /\ ret'[t].bundle = <<>>
        /\ ((LoaderTests(t) \/ LoaderLoads(t)) /\ pc'[t] = "idle"
            /\ pend[t].op \in {"dict", "load"}) =>
              LET r == ret'[t]
                  d == pend[t].dir
              IN  /\ r.op = "dict" => r.path = d
                  /\ r.op = "load" =>
                        d = Join(Join(Join(r.path, Checkpoint), PicoStepDir(r.step)),
                                 LearningDynamics)
                  /\ \A key \in DOMAIN r.bundle :
                        /\ key \in {StateKeys[i] : i \in 1..Len(StateKeys)}
                        /\ r.bundle[key] = PicoStatePath(d, r.split, key)
                  /\ pend[t].quiet =>
                        IF okFor(d, r.split)
                        THEN r.kind = "ok" /\ r.bundle = ExpectedBundle(d, r.split)
                        ELSE r.kind = "LoadError" /\ r.bundle = <<>>

(* C6 as amended: while the directory is not written during the call and every one
   of the four paths that exists loads, the bundle returned for directory d and split
   p has a key exactly when the path of the key exists, loaded from that path, and no
   other key; it is empty, not an error, when none exists.  When a path exists and
   its load fails the loader raises the error of the load and returns no bundle. *)
C6_KeysIffFiles == [][KeysIffFiles(AllLoad)]_vars

(* C6 as first stated: the bundle returned has a key exactly when the file of the key
   exists, and the loader does not raise. *)
C6_Original == [][KeysIffFiles(Always)]_vars

(* C6 witness: only val_weights.pt is present, it loads, and the val bundle has the
   key weights alone *)
C6_Witness ==
    /\ ret[1].op = "dict"
    /\ ret[1].kind = "ok"
    /\ ret[1].split = Val
    /\ DOMAIN ret[1].bundle = {Weights}
    /\ unreadable = {}
    /\ {x \in fs : IsPrefix(ret[1].path, x) /\ x # ret[1].path}
          = {Join(ret[1].path, StateFileName(Val, Weights))}

====
